---- MODULE Spec2Model ----
(***************************************************************************)
(* Model of atorch/trainer/atorch_args.py: the AtorchArguments record.     *)
(*   - __post_init__   : validation run at construction                    *)
(*   - _setup_devices  : the cached device / process-group binding         *)
(*   - to_dict         : the JSON-safe serialization                       *)
(* One configuration instance lives in one process, driven by one thread.  *)
(***************************************************************************)
EXTENDS Integers, Sequences, FiniteSets, TLC

---------------------------------------------------------------------------
(* Bounds of the model *)

\* number of _setup_devices accesses the controlling thread makes
MaxCalls == 2
\* largest world size of the distributed run
MaxWorld == 2

---------------------------------------------------------------------------
(* Python values.  An element is a string, a callable that carries a      *)
(* __name__ (a class or a function), a callable without one (for example  *)
(* a functools.partial object, rendered by str()), or an Enum member.     *)
(* A value is None, a single bare element, a list or a tuple.  Python's   *)
(* == between values is equality of kind and of contents: a tuple never   *)
(* equals a list and a string never equals a one-element list.            *)

Str(s) == [t |-> "str", v |-> s]
Cls(n) == [t |-> "callable", v |-> n]
Partial(n) == [t |-> "callable_noname", v |-> n]
EnumMember(n) == [t |-> "enum", v |-> n]

None == [kind |-> "none", items |-> << >>]
Bare(e) == [kind |-> "scalar", items |-> <<e>>]
List(s) == [kind |-> "list", items |-> s]
Tuple(s) == [kind |-> "tuple", items |-> s]

\* isinstance(x, Callable) for one element
IsCallable(e) == e.t \in {"callable", "callable_noname"}

\* isinstance(x, Enum) for one element
IsEnum(e) == e.t = "enum"

\* isinstance(v, Callable) for a value
IsCallableValue(v) == v.kind = "scalar" /\ IsCallable(v.items[1])

\* the type the messages of __post_init__ name: type(v)
TypeName(v) ==
  CASE v.kind = "none" -> "NoneType"
    [] v.kind = "list" -> "list"
    [] v.kind = "tuple" -> "tuple"
    [] v.kind = "scalar" /\ v.items[1].t = "str" -> "str"
    [] v.kind = "scalar" /\ v.items[1].t = "callable" -> "type"
    [] v.kind = "scalar" /\ v.items[1].t = "callable_noname" -> "partial"
    [] OTHER -> "enum"

---------------------------------------------------------------------------
(* The scheduler-name registries imported from atorch.utils.trainer_utils: *)
(* the standard names and the extended names.                              *)

SCHEDULER_NAMES == {"linear", "cosine"}
ATORCHSCHEDULER_NAMES == {"cosine_with_min_lr"}

---------------------------------------------------------------------------
(* State *)

VARIABLES
  st,                 \* "new", "constructed" or "failed" (construction raised)
  fields,             \* the option values of the instance
  err,                \* the error construction raised, NoError when none
  logged,             \* the informational log of the report_to check was written
  baseCalls,          \* invocations of Seq2SeqTrainingArguments.__post_init__
  env,                \* os.environ, the runtime's world size and rank
  is_initialized,     \* torch.distributed.is_initialized()
  initCalls,          \* invocations of atorch.init_distributed
  initArgs,           \* the arguments of the last invocation
  cached,             \* the value cached_property keeps for _setup_devices
  computes,           \* completed runs of the body of _setup_devices
  distributed_state,  \* self.distributed_state
  n_gpu,              \* self._n_gpu
  cuda_device,        \* the device torch.cuda.set_device made active
  calls,              \* accesses of _setup_devices so far
  lastResult,         \* what the last access of _setup_devices gave its caller
  lastDict,           \* what the last to_dict() returned
  lastOp              \* the operation that ran last

vars == <<st, fields, err, logged, baseCalls, env, is_initialized, initCalls,
          initArgs, cached, computes, distributed_state, n_gpu, cuda_device,
          calls, lastResult, lastDict, lastOp>>

configVars == <<st, fields, err, logged, baseCalls>>
deviceVars == <<is_initialized, initCalls, initArgs, cached, computes,
                distributed_state, n_gpu, cuda_device, calls, lastResult>>

---------------------------------------------------------------------------
(* Construction: __post_init__ *)

NoError == [check |-> "none", value |-> None, type |-> "", valid |-> {}]

ConfigError(check, v, typ, valid) ==
  [check |-> check, value |-> v, type |-> typ, valid |-> valid]

\* a report_to check that looks for the name inside the value
ReportToLenient(v) ==
  IF v = None THEN "pass"
  ELSE IF \E i \in 1..Len(v.items) : v.items[i] = Str("all") THEN "log"
  ELSE IF \E i \in 1..Len(v.items) : v.items[i] = Str("tensorboard") THEN "pass"
  ELSE "raise"

\* the report_to check: "pass", "log" (accepted with the informational log)
\* or "raise"
ReportToCheck(v) ==
  IF v # None
  THEN IF v = Bare(Str("all")) \/ v = List(<<Str("all")>>) THEN "log"
       ELSE IF v # Bare(Str("tensorboard")) /\ v # List(<<Str("tensorboard")>>)
            THEN "raise"
            ELSE "pass"
  ELSE "pass"

\* v in names, for a registry of name strings
InNames(v, names) == \E n \in names : v = Bare(Str(n))

\* the registry the scheduler-type check tests membership in
AcceptedSchedulerNames == ATORCHSCHEDULER_NAMES

\* the registry the message of the scheduler-type check lists
ListedSchedulerNames == SCHEDULER_NAMES \cup ATORCHSCHEDULER_NAMES

SchedulerCheckRaises(v) == v # None /\ ~InNames(v, AcceptedSchedulerNames)

\* a test that takes every sequence type
IsSequenceTyped(v) == v.kind \in {"tuple", "list"}

\* isinstance(v, tuple)
IsTuple(v) == v.kind = "tuple"

ClsCheckRaises(v) == v # None /\ ~IsTuple(v)

\* __post_init__ with the checks of the two class options ahead of the others
PostInitClsFirst(f, baseOk) ==
  IF ClsCheckRaises(f.atorch_wrap_cls)
  THEN [err |-> ConfigError("atorch_wrap_cls", f.atorch_wrap_cls,
                            TypeName(f.atorch_wrap_cls), {}),
        logged |-> FALSE, baseCalls |-> 0]
  ELSE IF ClsCheckRaises(f.atorch_checkpoint_cls)
  THEN [err |-> ConfigError("atorch_checkpoint_cls", f.atorch_checkpoint_cls,
                            TypeName(f.atorch_checkpoint_cls), {}),
        logged |-> FALSE, baseCalls |-> 0]
  ELSE IF ReportToCheck(f.report_to) = "raise"
  THEN [err |-> ConfigError("report_to", None, "", {}),
        logged |-> FALSE, baseCalls |-> 0]
  ELSE IF SchedulerCheckRaises(f.atorch_lr_scheduler_type)
  THEN [err |-> ConfigError("atorch_lr_scheduler_type", f.atorch_lr_scheduler_type,
                            "", ListedSchedulerNames),
        logged |-> ReportToCheck(f.report_to) = "log", baseCalls |-> 0]
  ELSE [err |-> IF baseOk THEN NoError ELSE ConfigError("base", None, "", {}),
        logged |-> ReportToCheck(f.report_to) = "log", baseCalls |-> 1]

\* __post_init__: the outcome of construction from the option values f, where
\* baseOk tells whether the base record's own validation accepts them
PostInit(f, baseOk) ==
  IF ReportToCheck(f.report_to) = "raise"
  THEN [err |-> ConfigError("report_to", None, "", {}),
        logged |-> FALSE, baseCalls |-> 0]
  ELSE IF SchedulerCheckRaises(f.atorch_lr_scheduler_type)
  THEN [err |-> ConfigError("atorch_lr_scheduler_type", f.atorch_lr_scheduler_type,
                            "", ListedSchedulerNames),
        logged |-> ReportToCheck(f.report_to) = "log", baseCalls |-> 0]
  ELSE IF ClsCheckRaises(f.atorch_wrap_cls)
  THEN [err |-> ConfigError("atorch_wrap_cls", f.atorch_wrap_cls,
                            TypeName(f.atorch_wrap_cls), {}),
        logged |-> ReportToCheck(f.report_to) = "log", baseCalls |-> 0]
  ELSE IF ClsCheckRaises(f.atorch_checkpoint_cls)
  THEN [err |-> ConfigError("atorch_checkpoint_cls", f.atorch_checkpoint_cls,
                            TypeName(f.atorch_checkpoint_cls), {}),
        logged |-> ReportToCheck(f.report_to) = "log", baseCalls |-> 0]
  ELSE [err |-> IF baseOk THEN NoError ELSE ConfigError("base", None, "", {}),
        logged |-> ReportToCheck(f.report_to) = "log", baseCalls |-> 1]

---------------------------------------------------------------------------
(* The device and process-group binding: _setup_devices.  The accelerator   *)
(* runtime (torch.device, torch.cuda.set_device) and PartialState are       *)
(* taken to return; the one call of the body that may raise is the          *)
(* process-group initialization.                                            *)

NoDevice == [type |-> "none", index |-> 0]
Device(type, index) == [type |-> type, index |-> index]

NoArgs == [backend |-> "", timeout |-> [seconds |-> 0]]
NoState == [distributed_type |-> "NO", num_processes |-> 0, process_index |-> 0,
            local_process_index |-> 0, device |-> NoDevice]

NoResult == [kind |-> "none", device |-> NoDevice]
Returned(d) == [kind |-> "returned", device |-> d]
InitRaised == [kind |-> "init_raised", device |-> NoDevice]

\* an environment variable: unset, or set to a string.  LOCAL_RANK holds a
\* string of decimal digits, kept as the sequence of its digits.
Unset(empty) == [set |-> FALSE, val |-> empty]
SetTo(val) == [set |-> TRUE, val |-> val]

\* int(s) for a string of decimal digits
RECURSIVE ParseInt(_)
ParseInt(digits) ==
  IF digits = << >> THEN 0
  ELSE 10 * ParseInt(SubSeq(digits, 1, Len(digits) - 1)) + digits[Len(digits)]

\* an access that trusts no cached value
CacheMiss(c) == TRUE

\* cached_property: no value is cached yet, the body has to run
CacheEmpty(c) == c = NoDevice

\* atorch.init_distributed(backend, timeout=...): it makes the group active,
\* or it raises (a timeout, unreachable peers) and leaves the process as it was
InitDistributedRaises(initOk) == ~initOk

\* an initialization that runs whether or not a group is active
InitAlways(isInit) == TRUE

\* not torch.distributed.is_initialized()
NeedsInit(isInit) == ~isInit

\* os.getenv("TORCH_DISTRIBUTED_BACKEND", "nccl")
InitBackend(e) ==
  IF e.TORCH_DISTRIBUTED_BACKEND.set THEN e.TORCH_DISTRIBUTED_BACKEND.val ELSE "nccl"

\* timedelta(seconds=self.ddp_timeout)
Timedelta(f) == [seconds |-> f.ddp_timeout]

\* int(os.environ.get("LOCAL_RANK", -1))
LocalProcessIndex(e) ==
  IF e.LOCAL_RANK.set THEN ParseInt(e.LOCAL_RANK.val) ELSE -1

\* a state that takes the global rank for the local process index
NewDistributedStateGlobalRank(e) ==
  [distributed_type |-> "MULTI_GPU",
   num_processes |-> e.world_size,
   process_index |-> e.rank,
   local_process_index |-> e.rank,
   device |-> Device("cuda", e.rank)]

\* the PartialState after the assignments of the body
NewDistributedState(e) ==
  [distributed_type |-> "MULTI_GPU",
   num_processes |-> e.world_size,
   process_index |-> e.rank,
   local_process_index |-> LocalProcessIndex(e),
   device |-> Device("cuda", LocalProcessIndex(e))]

\* a body that sets up the distributed state before it initializes the group
SetupDevicesStateFirst(f, e, s, initOk) ==
  LET invoked == NeedsInit(s.is_initialized)
      raised == invoked /\ InitDistributedRaises(initOk)
      ds == NewDistributedState(e)
  IN  [is_initialized |-> s.is_initialized \/ (invoked /\ initOk),
       initCalls |-> IF invoked THEN s.initCalls + 1 ELSE s.initCalls,
       initArgs |-> IF invoked
                    THEN [backend |-> InitBackend(e), timeout |-> Timedelta(f)]
                    ELSE s.initArgs,
       distributed_state |-> ds,
       n_gpu |-> IF raised THEN s.n_gpu ELSE 1,
       cuda_device |-> IF raised THEN s.cuda_device ELSE ds.device,
       result |-> IF raised THEN InitRaised ELSE Returned(ds.device)]

\* the body of _setup_devices, run from the process state s; initOk tells
\* whether atorch.init_distributed, if invoked, succeeds or raises
SetupDevicesBody(f, e, s, initOk) ==
  LET invoked == NeedsInit(s.is_initialized)
      raised == invoked /\ InitDistributedRaises(initOk)
      ds == NewDistributedState(e)
  IN  [is_initialized |-> s.is_initialized \/ (invoked /\ initOk),
       initCalls |-> IF invoked THEN s.initCalls + 1 ELSE s.initCalls,
       initArgs |-> IF invoked
                    THEN [backend |-> InitBackend(e), timeout |-> Timedelta(f)]
                    ELSE s.initArgs,
       distributed_state |-> IF raised THEN s.distributed_state ELSE ds,
       n_gpu |-> IF raised THEN s.n_gpu ELSE 1,
       cuda_device |-> IF raised THEN s.cuda_device ELSE ds.device,
       result |-> IF raised THEN InitRaised ELSE Returned(ds.device)]

\* one access of the cached property
SetupDevices(initOk) ==
  /\ st = "constructed"
  /\ calls < MaxCalls
  /\ calls' = calls + 1
  /\ lastOp' = "_setup_devices"
  /\ IF ~CacheEmpty(cached)
     THEN /\ lastResult' = Returned(cached)
          /\ UNCHANGED <<is_initialized, initCalls, initArgs, cached, computes,
                         distributed_state, n_gpu, cuda_device>>
     ELSE LET s == [is_initialized |-> is_initialized, initCalls |-> initCalls,
                    initArgs |-> initArgs, distributed_state |-> distributed_state,
                    n_gpu |-> n_gpu, cuda_device |-> cuda_device]
              r == SetupDevicesBody(fields, env, s, initOk)
          IN  /\ is_initialized' = r.is_initialized
              /\ initCalls' = r.initCalls
              /\ initArgs' = r.initArgs
              /\ distributed_state' = r.distributed_state
              /\ n_gpu' = r.n_gpu
              /\ cuda_device' = r.cuda_device
              /\ lastResult' = r.result
              /\ cached' = IF r.result.kind = "returned" THEN r.result.device ELSE cached
              /\ computes' = IF r.result.kind = "returned" THEN computes + 1 ELSE computes
  /\ UNCHANGED <<configVars, env, lastDict>>

---------------------------------------------------------------------------
(* Serialization: to_dict *)

\* the option fields that hold a Python value (ddp_timeout holds a number)
ValueFields == {"report_to", "atorch_lr_scheduler_type", "atorch_wrap_cls",
                "atorch_checkpoint_cls", "optim_func", "excluded"}

\* str(x)
StrOf(x) ==
  CASE x.t = "str" -> x.v
    [] x.t = "enum" -> "Enum." \o x.v
    [] x.t = "callable" -> "<class '" \o x.v \o "'>"
    [] OTHER -> x.v

\* x.__name__ if hasattr(x, "__name__") else str(x)
NameOf(x) == IF x.t = "callable" THEN Str(x.v) ELSE Str(StrOf(x))

\* [g(x) for x in items]
RECURSIVE MapNames(_)
MapNames(items) ==
  IF items = << >> THEN << >>
  ELSE <<NameOf(Head(items))>> \o MapNames(Tail(items))

\* [x.value for x in items]; only an Enum member has the attribute
RECURSIVE MapValues(_)
MapValues(items) ==
  IF items = << >> THEN << >>
  ELSE <<Str(Head(items).v)>> \o MapValues(Tail(items))

AllEnum(items) == \A i \in 1..Len(items) : IsEnum(items[i])

\* the base record's to_dict on one value: an Enum gives its value, a list
\* whose first element is an Enum gives the values of its elements
BaseConvert(v) ==
  IF v.kind = "scalar" /\ IsEnum(v.items[1]) THEN Bare(Str(v.items[1].v))
  ELSE IF v.kind = "list" /\ Len(v.items) > 0 /\ IsEnum(v.items[1])
       THEN List(MapValues(v.items))
       ELSE v

\* x.value raises for an element that is no Enum member
ConvertRaises(v) ==
  v.kind = "list" /\ Len(v.items) > 0 /\ IsEnum(v.items[1]) /\ ~AllEnum(v.items)

\* a conversion that renders every callable of a list or a tuple
ConvertEach(v) ==
  IF IsCallableValue(v) THEN Bare(NameOf(v.items[1]))
  ELSE IF v.kind \in {"list", "tuple"}
       THEN [kind |-> v.kind,
             items |-> [i \in 1..Len(v.items) |->
                          IF IsCallable(v.items[i]) THEN NameOf(v.items[i])
                          ELSE IF IsEnum(v.items[i]) THEN Str(v.items[i].v)
                          ELSE v.items[i]]]
       ELSE v

\* the loop body of to_dict on one value of the base record's mapping
Convert(v) ==
  IF IsCallableValue(v) THEN Bare(NameOf(v.items[1]))
  ELSE IF v.kind = "list" /\ Len(v.items) > 0
       THEN IF IsEnum(v.items[1]) THEN List(MapValues(v.items))
            ELSE IF IsCallable(v.items[1]) THEN List(MapNames(v.items))
            ELSE v
  ELSE IF v.kind = "tuple" /\ Len(v.items) > 0 /\ IsCallable(v.items[1])
       THEN Tuple(MapNames(v.items))
       ELSE v

Raised == [raised |-> TRUE, d |-> << >>]
NoDict == [raised |-> FALSE, d |-> << >>]

\* to_dict(): the mapping returned for the option values f
ToDictOf(f) ==
  IF \E k \in ValueFields : ConvertRaises(f[k]) THEN Raised
  ELSE [raised |-> FALSE,
        d |-> [k \in DOMAIN f |->
                 IF k \in ValueFields THEN Convert(BaseConvert(f[k])) ELSE f[k]]]

\* a serialization that stores the converted values on the instance
SelfAfterToDictInPlace(f, r) == IF r.raised THEN f ELSE r.d

\* the option values of the instance after to_dict() returned r: the loop
\* assigns into the mapping d only
SelfAfterToDict(f, r) == f

ToDict ==
  /\ st = "constructed"
  /\ lastDict' = ToDictOf(fields)
  /\ fields' = SelfAfterToDict(fields, ToDictOf(fields))
  /\ lastOp' = "to_dict"
  /\ UNCHANGED <<st, err, logged, baseCalls, env, deviceVars>>

---------------------------------------------------------------------------
(* Inputs *)

ReportToValues ==
  {None, Bare(Str("tensorboard")), List(<<Str("tensorboard")>>),
   Bare(Str("all")), List(<<Str("all")>>), Bare(Str("wandb")),
   Tuple(<<Str("tensorboard")>>), List(<<Str("tensorboard"), Str("wandb")>>),
   List(<<Str("all"), Str("tensorboard")>>)}

SchedulerValues ==
  {None, Bare(Str("cosine_with_min_lr")), Bare(Str("linear")),
   Bare(Str("bogus_scheduler"))}

WrapClsValues ==
  {None, Tuple(<<Cls("Block")>>), Tuple(<<Str("Block"), Cls("Attention")>>),
   List(<<Cls("Block")>>), Bare(Cls("Block"))}

CheckpointClsValues ==
  {None, Tuple(<<Str("Block")>>), List(<<Str("Block")>>), Bare(Cls("Block")),
   Bare(Str("Block"))}

OptimFuncValues == {Bare(Cls("AdamW")), Bare(Partial("functools.partial(sgd)")), None}

ExcludedValues ==
  {None, List(<<Str("amp")>>), List(<<EnumMember("fsdp"), EnumMember("amp")>>),
   List(<<Cls("amp"), Str("fsdp")>>), List(<<Str("amp"), Cls("fsdp")>>),
   List(<<EnumMember("fsdp"), Str("amp")>>)}

DdpTimeouts == {60, 1800}

Options(r, s, w, c, o, x, t) ==
  [report_to |-> r, atorch_lr_scheduler_type |-> s, atorch_wrap_cls |-> w,
   atorch_checkpoint_cls |-> c, optim_func |-> o, excluded |-> x, ddp_timeout |-> t]

\* the defaults of the fields
Defaults == Options(None, None, None, None, Bare(Cls("AdamW")), None, 1800)

\* option mappings: every combination of the four validated options with the
\* other options at their defaults, and every combination of the serialized
\* options and the timeout over values that pass validation
FieldInputs ==
  {Options(r, s, w, c, Defaults.optim_func, Defaults.excluded, Defaults.ddp_timeout) :
     r \in ReportToValues, s \in SchedulerValues, w \in WrapClsValues,
     c \in CheckpointClsValues}
  \cup
  {Options(None, s, w, None, o, x, t) :
     s \in {None, Bare(Str("cosine_with_min_lr"))},
     w \in {None, Tuple(<<Cls("Block")>>), Tuple(<<Str("Block"), Cls("Attention")>>)},
     o \in OptimFuncValues, x \in ExcludedValues, t \in DdpTimeouts}

\* LOCAL_RANK as the launcher sets it
LocalRanks == {Unset(<< >>), SetTo(<<0>>), SetTo(<<1>>)}
Backends == {Unset(""), SetTo("gloo")}

\* the process environment and the runtime's world size and global rank
Environments ==
  {[LOCAL_RANK |-> l, TORCH_DISTRIBUTED_BACKEND |-> b, world_size |-> w, rank |-> k] :
     l \in LocalRanks, b \in Backends, w \in 1..MaxWorld, k \in 0..(MaxWorld - 1)}

---------------------------------------------------------------------------
(* The state machine *)

Init ==
  /\ st = "new"
  /\ fields = Defaults
  /\ err = NoError
  /\ logged = FALSE
  /\ baseCalls = 0
  /\ env \in {e \in Environments : e.rank < e.world_size}
  /\ is_initialized \in BOOLEAN
  /\ initCalls = 0
  /\ initArgs = NoArgs
  /\ cached = NoDevice
  /\ computes = 0
  /\ distributed_state = NoState
  /\ n_gpu = -1
  /\ cuda_device = NoDevice
  /\ calls = 0
  /\ lastResult = NoResult
  /\ lastDict = NoDict
  /\ lastOp = "none"

\* AtorchArguments(**f): the dataclass stores the options and runs __post_init__
Construct(f, baseOk) ==
  /\ st = "new"
  /\ fields' = f
  /\ LET r == PostInit(f, baseOk)
     IN  /\ err' = r.err
         /\ logged' = r.logged
         /\ baseCalls' = r.baseCalls
         /\ st' = IF r.err = NoError THEN "constructed" ELSE "failed"
  /\ lastOp' = "__post_init__"
  /\ UNCHANGED <<env, deviceVars, lastDict>>

Next ==
  \/ \E f \in FieldInputs, baseOk \in BOOLEAN : Construct(f, baseOk)
  \/ \E initOk \in BOOLEAN : SetupDevices(initOk)
  \/ ToDict

Spec == Init /\ [][Next]_vars

---------------------------------------------------------------------------
(* Properties *)

\* construction ran the scheduler-type check: the report_to check did not raise
ReachedSchedulerCheck == st # "new" /\ err.check # "report_to"

\* construction ran the check of atorch_wrap_cls
ReachedWrapCheck ==
  st # "new" /\ err.check \notin {"report_to", "atorch_lr_scheduler_type"}

\* construction ran the check of atorch_checkpoint_cls
ReachedCheckpointCheck ==
  st # "new"
  /\ err.check \notin {"report_to", "atorch_lr_scheduler_type", "atorch_wrap_cls"}

\* C1: the scheduler-type check raises exactly when atorch_lr_scheduler_type is
\* set and lies outside SCHEDULER_NAMES + ATORCHSCHEDULER_NAMES, and the names
\* its message lists as valid are the names the check accepts.
C1_SchedulerCheckMatchesRegistry ==
  ReachedSchedulerCheck =>
    /\ (err.check = "atorch_lr_scheduler_type")
         <=> (/\ fields.atorch_lr_scheduler_type # None
              /\ ~InNames(fields.atorch_lr_scheduler_type,
                          SCHEDULER_NAMES \cup ATORCHSCHEDULER_NAMES))
    /\ (err.check = "atorch_lr_scheduler_type"
          => \A n \in err.valid : ~SchedulerCheckRaises(Bare(Str(n))))

\* C2 as stated: each of the two class options raises exactly when it is set
\* and is not sequence-typed; every tuple and every list passes.
C2_SequenceTypedPasses ==
  /\ ReachedWrapCheck =>
       ((err.check = "atorch_wrap_cls")
          <=> (/\ fields.atorch_wrap_cls # None
               /\ fields.atorch_wrap_cls.kind \notin {"tuple", "list"}))
  /\ ReachedCheckpointCheck =>
       ((err.check = "atorch_checkpoint_cls")
          <=> (/\ fields.atorch_checkpoint_cls # None
               /\ fields.atorch_checkpoint_cls.kind \notin {"tuple", "list"}))

\* C2 amended: each of the two class options raises, naming the received type,
\* exactly when it is set and is not a tuple; a list is rejected like a bare
\* value, an unset option and every tuple pass.
C2_OnlyTuplePasses ==
  /\ ReachedWrapCheck =>
       /\ (err.check = "atorch_wrap_cls")
            <=> (fields.atorch_wrap_cls # None /\ fields.atorch_wrap_cls.kind # "tuple")
       /\ err.check = "atorch_wrap_cls" => err.type = TypeName(fields.atorch_wrap_cls)
  /\ ReachedCheckpointCheck =>
       /\ (err.check = "atorch_checkpoint_cls")
            <=> (/\ fields.atorch_checkpoint_cls # None
                 /\ fields.atorch_checkpoint_cls.kind # "tuple")
       /\ err.check = "atorch_checkpoint_cls"
            => err.type = TypeName(fields.atorch_checkpoint_cls)

C2_Witness ==
  /\ st = "failed"
  /\ err.check = "atorch_wrap_cls"
  /\ fields.atorch_wrap_cls.kind = "list"
  /\ err.type = "list"

\* the values of report_to that pass the check
ReportToAccepted ==
  {None, Bare(Str("tensorboard")), List(<<Str("tensorboard")>>),
   Bare(Str("all")), List(<<Str("all")>>)}

\* C3: the report_to check passes exactly for None, "tensorboard",
\* ["tensorboard"], "all" and ["all"], the last two with the informational
\* log; every other value raises the configuration error.
C3_ReportToCheck ==
  st # "new" =>
    /\ (err.check # "report_to") <=> (fields.report_to \in ReportToAccepted)
    /\ logged <=> (fields.report_to \in {Bare(Str("all")), List(<<Str("all")>>)})

C3_Witness ==
  /\ st = "failed"
  /\ err.check = "report_to"
  /\ fields.report_to = Tuple(<<Str("tensorboard")>>)

\* C4 as stated: over any sequence of accesses the process-group
\* initialization is invoked at most once, every access that returns gives the
\* cached device, and the device is computed at most once.
C4_InitAtMostOnce ==
  /\ initCalls <= 1
  /\ computes <= 1
  /\ lastResult.kind = "returned" => lastResult.device = cached

\* C4 amended: every access that returns gives the one cached device; once a
\* device is cached it is never recomputed or changed and nothing of the
\* process state is written again; the initialization is invoked at most once
\* per access and never once a group is active or a device is cached.  An
\* access whose initialization raised caches nothing, and a later access
\* invokes the initialization again.
C4_Idempotent ==
  [][/\ cached # NoDevice =>
          /\ cached' = cached
          /\ computes' = computes
          /\ initCalls' = initCalls
          /\ distributed_state' = distributed_state
          /\ cuda_device' = cuda_device
          /\ n_gpu' = n_gpu
     /\ is_initialized => initCalls' = initCalls /\ is_initialized'
     /\ initCalls' <= initCalls + 1
     /\ computes' <= 1
     /\ lastResult'.kind = "returned" =>
          /\ cached' # NoDevice
          /\ lastResult'.device = cached']_vars

C4_Witness ==
  /\ calls = 2
  /\ computes = 1
  /\ initCalls = 1
  /\ lastResult = Returned(cached)
  /\ cached # NoDevice

\* the values of the mapping to_dict() returned hold strings only
NoRawObjects(d) ==
  \A k \in ValueFields : \A i \in 1..Len(d[k].items) : d[k].items[i].t = "str"

\* C5: the mapping to_dict() returns holds no raw Enum member and no raw
\* callable anywhere in its values.
C5_NoRawObjects ==
  (lastOp = "to_dict" /\ ~lastDict.raised) => NoRawObjects(lastDict.d)

\* C6: when the initialization raises inside an access, the access raises to
\* its caller after that single invocation and leaves the record unresolved:
\* no device cached, the distributed state not written, no accelerator bound,
\* the accelerator count not set.
C6_InitFailureLeavesUnresolved ==
  lastResult.kind = "init_raised" =>
    /\ initCalls = calls
    /\ ~is_initialized
    /\ cached = NoDevice
    /\ computes = 0
    /\ distributed_state = NoState
    /\ cuda_device = NoDevice
    /\ n_gpu = -1

C6_Witness ==
  /\ lastOp = "_setup_devices"
  /\ lastResult = InitRaised
  /\ initCalls = 2
  /\ distributed_state = NoState

\* C7: to_dict() leaves every option of the instance as it was and neither
\* resolves the device nor initializes the process group.
C7_ToDictDoesNotMutate ==
  [][lastOp' = "to_dict" =>
       /\ fields' = fields
       /\ st' = st
       /\ cached' = cached
       /\ computes' = computes
       /\ is_initialized' = is_initialized
       /\ initCalls' = initCalls
       /\ distributed_state' = distributed_state
       /\ cuda_device' = cuda_device
       /\ n_gpu' = n_gpu]_vars

C7_Witness ==
  /\ lastOp = "to_dict"
  /\ ~lastDict.raised
  /\ lastDict.d # fields
  /\ IsCallableValue(fields.optim_func)
  /\ cached = NoDevice
  /\ ~is_initialized

\* C8: the first access initializes the process group exactly when none is
\* active, with the backend of TORCH_DISTRIBUTED_BACKEND ("nccl" when unset)
\* and a timeout of ddp_timeout seconds; with a group already active the
\* initialization is skipped and the distributed state, the device binding
\* and the accelerator count are still set.
C8_FirstAccess ==
  [][(calls = 0 /\ calls' = 1) =>
       /\ ~is_initialized =>
            /\ initCalls' = 1
            /\ initArgs'.backend = (IF env.TORCH_DISTRIBUTED_BACKEND.set
                                    THEN env.TORCH_DISTRIBUTED_BACKEND.val
                                    ELSE "nccl")
            /\ initArgs'.timeout.seconds = fields.ddp_timeout
       /\ is_initialized =>
            /\ initCalls' = 0
            /\ initArgs' = NoArgs
            /\ distributed_state'.distributed_type = "MULTI_GPU"
            /\ cuda_device' = distributed_state'.device
            /\ cuda_device'.type = "cuda"
            /\ n_gpu' = 1
            /\ lastResult' = Returned(cuda_device')]_vars

C8_Witness ==
  /\ calls = 1
  /\ initCalls = 0
  /\ is_initialized
  /\ lastResult.kind = "returned"
  /\ distributed_state # NoState

\* C9: after every access that returns, the distributed state is multi-GPU
\* with the runtime's world size and rank and the local rank of LOCAL_RANK
\* (-1 when absent); the device returned is the accelerator of that index, it
\* is the active device, and the accelerator count is 1.
C9_ResolvedState ==
  lastResult.kind = "returned" =>
    LET local == IF env.LOCAL_RANK.set THEN ParseInt(env.LOCAL_RANK.val) ELSE -1
    IN  /\ distributed_state.distributed_type = "MULTI_GPU"
        /\ distributed_state.num_processes = env.world_size
        /\ distributed_state.process_index = env.rank
        /\ distributed_state.local_process_index = local
        /\ distributed_state.device = Device("cuda", local)
        /\ lastResult.device = Device("cuda", local)
        /\ cuda_device = Device("cuda", local)
        /\ n_gpu = 1

C9_Witness ==
  /\ lastResult.kind = "returned"
  /\ calls = 2
  /\ env.LOCAL_RANK = SetTo(<<0>>)
  /\ env.rank = 1
  /\ distributed_state.process_index = 1
  /\ distributed_state.local_process_index = 0
  /\ cuda_device = Device("cuda", 0)
  /\ n_gpu = 1

\* the extension check that fails first for the option values f, "none" when
\* all four pass
FirstFailing(f) ==
  CASE f.report_to \notin ReportToAccepted -> "report_to"
    [] /\ f.report_to \in ReportToAccepted
       /\ SchedulerCheckRaises(f.atorch_lr_scheduler_type)
       -> "atorch_lr_scheduler_type"
    [] /\ f.report_to \in ReportToAccepted
       /\ ~SchedulerCheckRaises(f.atorch_lr_scheduler_type)
       /\ ClsCheckRaises(f.atorch_wrap_cls)
       -> "atorch_wrap_cls"
    [] /\ f.report_to \in ReportToAccepted
       /\ ~SchedulerCheckRaises(f.atorch_lr_scheduler_type)
       /\ ~ClsCheckRaises(f.atorch_wrap_cls)
       /\ ClsCheckRaises(f.atorch_checkpoint_cls)
       -> "atorch_checkpoint_cls"
    [] OTHER -> "none"

\* C10: construction checks report_to, the scheduler type, atorch_wrap_cls and
\* atorch_checkpoint_cls in that order and then runs the base validation; it
\* stops at the first failure, so the base validation runs exactly once after
\* the four checks passed and never when one of them failed, and the error is
\* that of the earliest failing check.
C10_CheckOrder ==
  st # "new" =>
    /\ FirstFailing(fields) # "none" =>
         (st = "failed" /\ err.check = FirstFailing(fields) /\ baseCalls = 0)
    /\ FirstFailing(fields) = "none" =>
         (baseCalls = 1 /\ err.check \in {"none", "base"})
    /\ st = "constructed" <=> err = NoError

C10_Witness ==
  /\ st = "failed"
  /\ err.check = "atorch_lr_scheduler_type"
  /\ baseCalls = 0
  /\ ClsCheckRaises(fields.atorch_wrap_cls)
  /\ ClsCheckRaises(fields.atorch_checkpoint_cls)

====
